---------------------------- MODULE Spec2Model ----------------------------
(***************************************************************************)
(* Cross-validator service of zk-oracle-solana: the consensus engine       *)
(* (CrossValidator.aggregateValidations, CrossValidator.requestValidations,*)
(* CrossValidator.detectCollusion) and the routes that call it; and the    *)
(* trust scorer service (TrustScorer) with its routes.                     *)
(*                                                                         *)
(* Numbers.  Trust scores are integers; a consensus ratio and a threshold  *)
(* are JavaScript doubles that are quotients of small integers, modelled   *)
(* as reduced fractions [n, d] with d > 0 (for the magnitudes used here    *)
(* two such quotients are equal doubles exactly when the fractions are     *)
(* equal, and compare as the fractions do).                                *)
(***************************************************************************)
EXTENDS Integers, Sequences, FiniteSets, TLC

VARIABLES
    now,            \* the latest reading of Date.now()
    aggReq,         \* body of the latest POST /aggregate
    aggRes,         \* its response: [status, body]
    aggPrev,        \* the response before it, when the latest call re-sends that request
    aggKind,        \* "none" | "first" | "rejected" | "repeat" | "permuted"
    pc,             \* requestValidations: "idle" | "collecting" | "done"
    request,        \* the ValidationRequest of the round
    reqConfig,      \* the Partial<ConsensusConfig> of the round
    promise,        \* promise[i]: state of validationPromises[i]
    validations,    \* the array `validations` of the round (line 159), shared with the callbacks
    successfulValidations, \* the array built by validations.filter (line 195)
    timer,          \* "unset" | "armed" | "fired": the setTimeout of line 191
    race,           \* how Promise.race settled, and which promises were fulfilled by then
    reqResult,      \* what requestValidations settled with: [outcome, value, ref]
    calcCall,       \* arguments of the latest calculateTrustScore call, with its Date.now()
    calcRet,        \* the number it returned
    calcPrev,       \* the number the call before it returned
    tsValue,        \* a participant's trust value, as the latest update returned it
    tsPrev,         \* the value that update was given
    tsOp,           \* the update that produced tsValue, with its arguments
    trendCall,      \* arguments of the latest predictTrustScoreTrend call, with its Date.now()
    trendRet,       \* the number it returned
    pastResults,    \* the past ValidationResults a caller holds, oldest first
    collusion,      \* the latest detectCollusion call: its validatorIds and CollusionDetection
    proofCall,      \* the ValidationResult of the latest POST /generate-proof
    proofRet,       \* the proof data generateConsensusProof serialised for it
    proofPrev,      \* the proof data of the call before it
    ledger          \* the trust state a caller keeps for each participant, with the
                    \* events applied to it

aggVars == <<aggReq, aggRes, aggPrev, aggKind>>
reqVars ==
    <<pc, request, reqConfig, promise, validations, successfulValidations, timer, race, reqResult>>
calcVars == <<calcCall, calcRet, calcPrev>>
trustVars == <<tsValue, tsPrev, tsOp>>
trendVars == <<trendCall, trendRet>>
scorerVars == <<calcVars, trustVars, trendVars>>
colVars == <<pastResults, collusion>>
proofVars == <<proofCall, proofRet, proofPrev>>
vars == <<now, aggVars, reqVars, scorerVars, colVars, proofVars, ledger>>

---------------------------------------------------------------------------
(* Bounds of the model *)

MaxOpinions == 3
MaxTime == 1
MaxValidators == 3

---------------------------------------------------------------------------
(* Arithmetic on reduced fractions *)

Abs(x) == IF x < 0 THEN -x ELSE x

RECURSIVE GCD(_, _)
GCD(a, b) == IF b = 0 THEN a ELSE GCD(b, a % b)

\* the quotient p / q of two integers, q > 0
Quot(p, q) ==
    LET g == GCD(Abs(p), q)
    IN  [n |-> p \div g, d |-> q \div g]

FracZero == [n |-> 0, d |-> 1]
FracOne == [n |-> 1, d |-> 1]

FracGeq(x, y) == x.n * y.d >= y.n * x.d
FracLeq(x, y) == FracGeq(y, x)

---------------------------------------------------------------------------
(* ConsensusConfig and its defaults *)

DefaultMinValidations == 3
DefaultTimeoutMs == 30000
\* consensusThreshold: 0.66
DefaultConsensusThreshold == [n |-> 33, d |-> 50]

defaultConfig ==
    [minValidations |-> DefaultMinValidations,
     consensusThreshold |-> DefaultConsensusThreshold,
     timeoutMs |-> DefaultTimeoutMs]

\* { ...this.defaultConfig, ...config }: a key of config overrides the default
MergeConfig(config) ==
    [f \in DOMAIN defaultConfig \cup DOMAIN config |->
        IF f \in DOMAIN config THEN config[f] ELSE defaultConfig[f]]

---------------------------------------------------------------------------
(* aggregateValidations *)

\* validations.length < finalConfig.minValidations
InsufficientOffByOne(vals, finalConfig) ==
    Len(vals) + 1 < finalConfig.minValidations
Insufficient(vals, finalConfig) ==
    Len(vals) < finalConfig.minValidations

\* the loop of lines 102-108, as it accumulates one of the two sums:
\* side = TRUE is weightedPositive, side = FALSE is weightedNegative
RECURSIVE WeightedLoop(_, _, _, _)
WeightedLoop(vals, i, side, acc) ==
    IF i > Len(vals) THEN acc
    ELSE WeightedLoop(vals, i + 1, side,
                      IF vals[i].result = side
                      THEN acc + vals[i].trustScore
                      ELSE acc)

WeightedIgnoringResult(vals, side) ==
    IF side THEN WeightedLoop(vals, 1, TRUE, 0) + WeightedLoop(vals, 1, FALSE, 0)
    ELSE 0
WeightedFromSecond(vals, side) == WeightedLoop(vals, 2, side, 0)
Weighted(vals, side) == WeightedLoop(vals, 1, side, 0)

\* totalWeight > 0 ? weightedPositive / totalWeight : 0
ConsensusRatio(weightedPositive, weightedNegative) ==
    LET totalWeight == weightedPositive + weightedNegative
    IN  IF totalWeight > 0 THEN Quot(weightedPositive, totalWeight) ELSE FracZero

\* consensusRatio >= finalConfig.consensusThreshold
MeetsThresholdStrict(consensusRatio, finalConfig) ==
    ~FracLeq(consensusRatio, finalConfig.consensusThreshold)
MeetsThreshold(consensusRatio, finalConfig) ==
    FracGeq(consensusRatio, finalConfig.consensusThreshold)

\* timestamp: Date.now()
StampFrozen(t) == 0
Stamp(t) == t

\* t is the reading of Date.now() the call makes
aggregateValidations(dataId, vals, config, t) ==
    LET finalConfig == MergeConfig(config)
    IN  IF Insufficient(vals, finalConfig)
        THEN [dataId |-> dataId,
              isValid |-> FALSE,
              weightedPositive |-> 0,
              weightedNegative |-> 0,
              consensusRatio |-> FracZero,
              validations |-> vals,
              timestamp |-> Stamp(t)]
        ELSE LET weightedPositive == Weighted(vals, TRUE)
                 weightedNegative == Weighted(vals, FALSE)
                 consensusRatio == ConsensusRatio(weightedPositive, weightedNegative)
             IN  [dataId |-> dataId,
                  isValid |-> MeetsThreshold(consensusRatio, finalConfig),
                  weightedPositive |-> weightedPositive,
                  weightedNegative |-> weightedNegative,
                  consensusRatio |-> consensusRatio,
                  validations |-> vals,
                  timestamp |-> Stamp(t)]

---------------------------------------------------------------------------
(* POST /aggregate *)

\* trust scores a request body may carry: the range [0, 1000] of a TrustScore
\* and, since the route does not check them, values outside it
TrustScores == {-100, 0, 100, 900, 1000}
InRange(s) == 0 <= s /\ s <= 1000

OpinionInputs ==
    [validator : {"v1"}, result : BOOLEAN, trustScore : TrustScores, timestamp : {0}]

SeqUpTo(S, n) == UNION {[1..k -> S] : k \in 0..n}

EmptyConfig == [f \in {} |-> 0]
Half == [n |-> 1, d |-> 2]
AggConfigs ==
    {EmptyConfig,
     [minValidations |-> 2],
     [consensusThreshold |-> Half]}

DataIds == {"claim-1"}

\* request bodies: complete ones, and ones that lack dataId or validations
AggBodies ==
    {[dataId |-> d, validations |-> v, config |-> c] :
        d \in DataIds, v \in SeqUpTo(OpinionInputs, MaxOpinions), c \in AggConfigs}
    \cup {[validations |-> v, config |-> EmptyConfig] : v \in SeqUpTo(OpinionInputs, 1)}
    \cup {[dataId |-> d, config |-> EmptyConfig] : d \in DataIds}

\* !dataId || !validations || !Array.isArray(validations)
AggregateRejects(body) ==
    ~("dataId" \in DOMAIN body) \/ ~("validations" \in DOMAIN body)

AggregateRoute(body, t) ==
    IF AggregateRejects(body)
    THEN [status |-> 400, body |-> [error |-> "Missing required parameters"]]
    ELSE [status |-> 200,
          body |-> aggregateValidations(body.dataId, body.validations, body.config, t)]

NoExchange == [status |-> 0]

\* a first request
PostAggregate(body, t) ==
    /\ aggKind = "none"
    /\ now' = t
    /\ aggReq' = body
    /\ aggRes' = AggregateRoute(body, t)
    /\ aggPrev' = NoExchange
    /\ aggKind' = IF AggregateRejects(body) THEN "rejected" ELSE "first"
    /\ UNCHANGED <<reqVars, scorerVars, colVars, proofVars, ledger>>

\* the same request body sent again, at a later (or the same) clock reading
PostAggregateAgain(t) ==
    /\ aggKind \in {"first", "repeat", "permuted"}
    /\ now' = t
    /\ aggRes' = AggregateRoute(aggReq, t)
    /\ aggPrev' = aggRes
    /\ aggKind' = "repeat"
    /\ UNCHANGED <<aggReq, reqVars, scorerVars, colVars, proofVars, ledger>>

Swap(s, i) ==
    [k \in 1..Len(s) |-> IF k = i THEN s[i + 1] ELSE IF k = i + 1 THEN s[i] ELSE s[k]]

\* the request sent again with two neighbouring opinions exchanged
PostAggregatePermuted(i, t) ==
    /\ aggKind \in {"first", "repeat", "permuted"}
    /\ i \in 1..(Len(aggReq.validations) - 1)
    /\ now' = t
    /\ aggReq' = [aggReq EXCEPT !.validations = Swap(aggReq.validations, i)]
    /\ aggRes' = AggregateRoute(aggReq', t)
    /\ aggPrev' = aggRes
    /\ aggKind' = "permuted"
    /\ UNCHANGED <<reqVars, scorerVars, colVars, proofVars, ledger>>

---------------------------------------------------------------------------
(* requestValidations *)

\* hashString renders |hash|, a 32-bit integer of at most 8 hex digits, and
\* pads it to 32 digits: the digits from..to-1 of the result, read as a number,
\* are 0 for every field that ends at or before digit 24.  simulateValidation
\* reads the fields 0..8, 8..16 and 16..18.
hashStringField(str, from, to) == 0

\* the validation a validator answers with; t is its reading of Date.now()
simulateValidation(validator, req, t) ==
    LET seed == <<validator, req.dataHash>>
    IN  [validator |-> validator,
         result |-> (hashStringField(seed, 0, 8) % 100 < 80),
         trustScore |-> 200 + (hashStringField(seed, 8, 16) % 800),
         timestamp |-> t]

\* what a callback's promise becomes when the validator's call fails:
\* catch (error) { ...; return null; }
CallbackRethrows == "rejected"
CallbackOnError == "null"

AllSettled(p) == \A i \in DOMAIN p : p[i] # "pending"
AnyRejected(p) == \E i \in DOMAIN p : p[i] = "rejected"

\* Promise.race([Promise.all(validationPromises), new Promise(setTimeout)])
PromiseRaceWithoutTimer(allSettled, timerDone) == allSettled
PromiseRace(allSettled, timerDone) == allSettled \/ timerDone

\* validations.filter(v => v !== null): a new array
FilterAbsentAsAgainst(vals) ==
    vals \o [k \in 1..Cardinality({i \in DOMAIN promise : promise[i] = "pending"}) |->
                [validator |-> "absent", result |-> FALSE, trustScore |-> 200, timestamp |-> 0]]
Filter(vals) == SelectSeq(vals, LAMBDA v : DOMAIN v # {})

\* the array handed to aggregateValidations and kept in the result (line 198)
AggregatedArrayShared == "validations"
AggregatedArray == "successfulValidations"

\* the third argument of aggregateValidations in line 198: the config of
\* the call, not the minValidations and consensusThreshold of the request
RoundConfigFromRequest(req, config) ==
    [minValidations |-> req.minValidations, consensusThreshold |-> req.consensusThreshold]
RoundConfig(req, config) == config

\* whether the await of line 189 ends, with the promises in state p
Settles(p, timerDone) ==
    pc = "collecting" /\ (AnyRejected(p) \/ PromiseRace(AllSettled(p), timerDone))

\* the rest of requestValidations once the await of line 189 ends: lines
\* 194-198, or the catch of line 199 when Promise.all rejected
Continue(p, vals, timerDone, t) ==
    IF ~Settles(p, timerDone)
    THEN UNCHANGED <<pc, successfulValidations, race, reqResult>>
    ELSE IF AnyRejected(p)
    THEN /\ pc' = "done"
         /\ race' = [winner |-> "rejected", responded |-> {}]
         /\ reqResult' = [outcome |-> "threw"]
         /\ UNCHANGED successfulValidations
    ELSE /\ pc' = "done"
         /\ race' = [winner |-> IF AllSettled(p) THEN "all" ELSE "timeout",
                     responded |-> {i \in DOMAIN p : p[i] = "fulfilled"}]
         /\ successfulValidations' = Filter(vals)
         /\ reqResult' =
              [outcome |-> "returned",
               value |-> aggregateValidations(request.dataId, Filter(vals),
                                             RoundConfig(request, reqConfig), t),
               ref |-> AggregatedArray]

Validators == {"v1", "v2"}

Requests ==
    [dataId : DataIds, dataHash : {"hash-1"}, category : {1},
     validators : SeqUpTo(Validators, MaxValidators),
     minValidations : {DefaultMinValidations},
     consensusThreshold : {DefaultConsensusThreshold}]

ReqConfigs == {EmptyConfig, [minValidations |-> 2]}

\* the call, up to the await of line 189: one callback per validator is
\* started and waits for its validator, and the timer is armed
RequestValidations(req, config, t) ==
    /\ pc = "idle"
    /\ request' = req
    /\ reqConfig' = config
    /\ validations' = <<>>
    /\ promise' = [i \in 1..Len(req.validators) |-> "pending"]
    /\ timer' = "armed"
    /\ IF Len(req.validators) = 0
       THEN /\ pc' = "done"
            /\ race' = [winner |-> "all", responded |-> {}]
            /\ successfulValidations' = Filter(<<>>)
            /\ reqResult' =
                 [outcome |-> "returned",
                  value |-> aggregateValidations(req.dataId, Filter(<<>>),
                                                RoundConfig(req, config), t),
                  ref |-> AggregatedArray]
            /\ now' = t
       ELSE /\ pc' = "collecting"
            /\ UNCHANGED <<successfulValidations, race, reqResult, now>>
    /\ UNCHANGED <<aggVars, scorerVars, colVars, proofVars, ledger>>

\* validator i answers: its callback pushes the validation and its promise is
\* fulfilled (lines 172-181), also after the round has been closed
ValidatorResponds(i, t) ==
    /\ pc \in {"collecting", "done"}
    /\ i \in DOMAIN promise
    /\ promise[i] = "pending"
    /\ now' = t
    /\ validations' = Append(validations, simulateValidation(request.validators[i], request, t))
    /\ promise' = [promise EXCEPT ![i] = "fulfilled"]
    /\ Continue(promise', validations', timer = "fired", t)
    /\ UNCHANGED <<request, reqConfig, timer, aggVars, scorerVars, colVars, proofVars, ledger>>

\* the call to validator i fails: the callback's catch (lines 182-185)
ValidatorFails(i, t) ==
    /\ pc \in {"collecting", "done"}
    /\ i \in DOMAIN promise
    /\ promise[i] = "pending"
    /\ promise' = [promise EXCEPT ![i] = CallbackOnError]
    /\ now' = IF Settles(promise', timer = "fired") /\ ~AnyRejected(promise') THEN t ELSE now
    /\ Continue(promise', validations, timer = "fired", t)
    /\ UNCHANGED <<request, reqConfig, validations, timer, aggVars, scorerVars, colVars, proofVars, ledger>>

\* the timer of line 191 fires
TimerFires(t) ==
    /\ timer = "armed"
    /\ timer' = "fired"
    /\ now' = IF Settles(promise, TRUE) THEN t ELSE now
    /\ Continue(promise, validations, TRUE, t)
    /\ UNCHANGED <<request, reqConfig, promise, validations, aggVars, scorerVars, colVars, proofVars, ledger>>

---------------------------------------------------------------------------
(* POST /request *)

RequiredFields == <<"dataId", "dataHash", "category", "validators">>

\* !req.body[field]: the field is absent, or holds 0 or the empty string;
\* an array, also an empty one, is not falsy
Falsy(body, field) ==
    IF field \notin DOMAIN body THEN TRUE
    ELSE IF field = "category" THEN body.category = 0
    ELSE IF field = "validators" THEN FALSE
    ELSE body[field] = ""

\* requiredFields.filter(field => !req.body[field])
MissingFields(body) == SelectSeq(RequiredFields, LAMBDA field : Falsy(body, field))

\* req.body.config
BodyConfig(body) == IF "config" \in DOMAIN body THEN body.config ELSE EmptyConfig

Without(body, field) == [f \in DOMAIN body \ {field} |-> body[f]]

\* the minValidations and consensusThreshold a body may carry in the request
\* itself; the route does not check them
RequestOverrides ==
    {[minValidations |-> DefaultMinValidations, consensusThreshold |-> DefaultConsensusThreshold],
     [minValidations |-> 1, consensusThreshold |-> [n |-> 3, d |-> 2]]}

\* request bodies: complete ones, with category 0 or an empty validator list
\* among them, and ones that lack one of the required fields
RequestBodies ==
    {[dataId |-> d, dataHash |-> "hash-1", category |-> c, validators |-> v,
      minValidations |-> o.minValidations, consensusThreshold |-> o.consensusThreshold,
      config |-> config] :
        d \in DataIds, c \in {0, 1}, v \in SeqUpTo(Validators, MaxValidators),
        o \in RequestOverrides, config \in ReqConfigs}
    \cup {Without([dataId |-> "claim-1", dataHash |-> "hash-1", category |-> 1,
                   validators |-> <<"v1", "v2">>], RequiredFields[k]) : k \in 1..4}

\* the handler up to the await of requestValidations: a body with missing
\* fields is answered with 400 and nothing else happens
PostRequest(body, t) ==
    IF Len(MissingFields(body)) > 0
    THEN /\ pc = "idle"
         /\ pc' = "rejected"
         /\ request' = body
         /\ reqResult' = [outcome |-> "rejected", missing |-> MissingFields(body)]
         /\ UNCHANGED <<now, reqConfig, promise, validations, successfulValidations,
                        timer, race, aggVars, scorerVars, colVars, proofVars, ledger>>
    ELSE RequestValidations(body, BodyConfig(body), t)

\* the response of the handler once requestValidations has ended
RequestRouteResponse ==
    IF reqResult.outcome = "rejected"
    THEN [status |-> 400, body |-> [error |-> reqResult.missing]]
    ELSE IF reqResult.outcome = "returned"
    THEN [status |-> 200, body |-> reqResult.value]
    ELSE IF reqResult.outcome = "threw"
    THEN [status |-> 500, body |-> [error |-> "Failed to request validations"]]
    ELSE [status |-> 0]

---------------------------------------------------------------------------
(* JavaScript numbers of the trust scorer.  A finite number is a reduced   *)
(* fraction [n, d] with d > 0; d = 0 marks the doubles that are not        *)
(* finite: NaN, Infinity and -Infinity.                                    *)

NaN == [n |-> 0, d |-> 0]
PosInfinity == [n |-> 1, d |-> 0]
NegInfinity == [n |-> -1, d |-> 0]
Num(i) == [n |-> i, d |-> 1]
IsFinite(x) == x.d > 0
Sign(i) == IF i > 0 THEN 1 ELSE IF i < 0 THEN -1 ELSE 0

\* x + y
JAdd(x, y) ==
    IF x = NaN \/ y = NaN THEN NaN
    ELSE IF ~IsFinite(x) /\ ~IsFinite(y) THEN (IF x = y THEN x ELSE NaN)
    ELSE IF ~IsFinite(x) THEN x
    ELSE IF ~IsFinite(y) THEN y
    ELSE Quot(x.n * y.d + y.n * x.d, x.d * y.d)

\* x * y
JMul(x, y) ==
    IF x = NaN \/ y = NaN THEN NaN
    ELSE IF IsFinite(x) /\ IsFinite(y) THEN Quot(x.n * y.n, x.d * y.d)
    ELSE IF x.n = 0 \/ y.n = 0 THEN NaN
    ELSE [n |-> Sign(x.n) * Sign(y.n), d |-> 0]

\* x / y of two finite numbers: a zero divisor gives NaN or an infinity
JDiv(x, y) ==
    IF y.n = 0 THEN [n |-> Sign(x.n), d |-> 0]
    ELSE Quot(Sign(y.n) * x.n * y.d, x.d * Abs(y.n))

JLeq(x, y) ==
    IF IsFinite(x) /\ IsFinite(y) THEN x.n * y.d <= y.n * x.d
    ELSE x = NegInfinity \/ y = PosInfinity \/ x = y

\* Math.round: the nearest integer, a half going up; NaN and the infinities stay
MathRound(x) == IF IsFinite(x) THEN Num((2 * x.n + x.d) \div (2 * x.d)) ELSE x

\* Math.max and Math.min return NaN as soon as an argument is NaN
MathMax(x, y) == IF x = NaN \/ y = NaN THEN NaN ELSE IF JLeq(x, y) THEN y ELSE x
MathMin(x, y) == IF x = NaN \/ y = NaN THEN NaN ELSE IF JLeq(x, y) THEN x ELSE y

\* Math.min(1000, Math.max(0, x)), the closing line of every scorer function
ClampFromAbove(x) == MathMin(Num(1000), x)
ClampToScoreRange(x) == MathMin(Num(1000), MathMax(Num(0), x))

---------------------------------------------------------------------------
(* TrustScorer.calculateTrustScore.  Timestamps are counted in days.       *)

DefaultFactor == 500
WeightKeys == {"accuracy", "consistency", "validation"}
\* accuracy: 0.6, consistency: 0.2, validation: 0.2
defaultWeights ==
    [accuracy |-> [n |-> 3, d |-> 5], consistency |-> [n |-> 1, d |-> 5],
     validation |-> [n |-> 1, d |-> 5]]

\* params.field ?? fallback
Field(params, field, fallback) == IF field \in DOMAIN params THEN params[field] ELSE fallback

\* Math.exp(-decayRate * ageInDays), decayRate = 0.05, in units of 1/10000 and
\* rounded to the unit, for the ages the model's histories have
DecayWeight(ageInDays) ==
    CASE ageInDays = 0 -> 10000
      [] ageInDays = 14 -> 4966
      [] ageInDays = 30 -> 2231
      [] ageInDays = 44 -> 1108

RECURSIVE DecayedSums(_, _, _, _)
DecayedSums(history, i, t, acc) ==
    IF i > Len(history) THEN acc
    ELSE LET weight == DecayWeight(t - history[i].timestamp)
         IN  DecayedSums(history, i + 1, t,
                 [weightedSum |-> acc.weightedSum + history[i].score * weight,
                  totalWeight |-> acc.totalWeight + weight])

calculateDecayedAccuracy(history, t) ==
    IF Len(history) = 0 THEN Num(DefaultFactor)
    ELSE LET sums == DecayedSums(history, 1, t, [weightedSum |-> 0, totalWeight |-> 0])
         IN  IF sums.totalWeight > 0
             THEN MathRound(Quot(sums.weightedSum, sums.totalWeight))
             ELSE Num(DefaultFactor)

normalizeWeights(weights) ==
    LET total == JAdd(JAdd(weights.accuracy, weights.consistency), weights.validation)
    IN  [k \in WeightKeys |-> JDiv(weights[k], total)]

calculateTrustScore(params, t) ==
    LET accuracyHistory == Field(params, "accuracyHistory", <<>>)
        consistencyFactor == Num(Field(params, "consistencyFactor", DefaultFactor))
        validationSuccessRate == Num(Field(params, "validationSuccessRate", DefaultFactor))
        weights == Field(params, "weights", [k \in {} |-> 0])
        finalWeights == normalizeWeights([k \in WeightKeys |-> Field(weights, k, defaultWeights[k])])
        accuracyFactor == calculateDecayedAccuracy(accuracyHistory, t)
        weightedAccuracy == MathRound(JMul(accuracyFactor, finalWeights.accuracy))
        weightedConsistency == MathRound(JMul(consistencyFactor, finalWeights.consistency))
        weightedValidation == MathRound(JMul(validationSuccessRate, finalWeights.validation))
    IN  ClampToScoreRange(JAdd(JAdd(weightedAccuracy, weightedConsistency), weightedValidation))

(* POST /calculate hands the body's fields to calculateTrustScore as they are *)
Triple(a, c, v) == [accuracy |-> a, consistency |-> c, validation |-> v]
ScaleWeights(weights, k) == [key \in DOMAIN weights |-> JMul(weights[key], k)]
AllZero(weights) == DOMAIN weights = WeightKeys /\ \A key \in WeightKeys : weights[key].n = 0
WeightInputs ==
    { [k \in {} |-> 0],
      [accuracy |-> Num(1)],
      Triple(Num(0), Num(0), Num(0)),
      defaultWeights,
      Triple(Num(1), Num(0), Num(0)),
      Triple(Num(0), Num(1), Num(0)),
      Triple(Num(0), Num(0), Num(1)),
      Triple(Num(3), Num(1), Num(1)),
      Triple(Num(1), Num(-1), Num(0)),
      Triple(Num(2), Num(-1), Num(0)),
      Triple(Num(-1), Num(-1), Num(-1)) }
AccuracyRecord(t, s) == [timestamp |-> t, score |-> s]
HistoryInputs ==
    { <<>>,
      <<AccuracyRecord(30, 1000)>>,
      <<AccuracyRecord(0, 0), AccuracyRecord(30, 1000)>>,
      <<AccuracyRecord(0, 1000), AccuracyRecord(30, 0)>> }
FactorInputs == {0, 1000, 5000, -500}
CalcDays == {30, 44}
CalcParams ==
    { [f \in F |-> IF f = "consistencyFactor" THEN c ELSE v] :
          F \in SUBSET {"consistencyFactor", "validationSuccessRate"},
          c \in FactorInputs, v \in {0, 1000} }
NoCall == [kind |-> "none"]

\* POST /calculate
Calculate(evidence, history, weights, t) ==
    /\ calcCall.kind = "none"
    /\ LET params == [f \in DOMAIN evidence \cup {"accuracyHistory", "weights"} |->
                         IF f = "accuracyHistory" THEN history
                         ELSE IF f = "weights" THEN weights ELSE evidence[f]]
       IN  /\ calcCall' = [kind |-> "first", params |-> params, today |-> t]
           /\ calcRet' = calculateTrustScore(params, t)
    /\ calcPrev' = calcRet
    /\ UNCHANGED <<now, aggVars, reqVars, trustVars, trendVars, colVars, proofVars, ledger>>

\* POST /calculate again on the same day with the same evidence and other weights
CalculateReweighted(weights) ==
    /\ calcCall.kind = "first"
    /\ LET params == [calcCall.params EXCEPT !.weights = weights]
       IN  /\ calcCall' = [kind |-> "reweighted", params |-> params, today |-> calcCall.today,
                           before |-> calcCall.params.weights]
           /\ calcRet' = calculateTrustScore(params, calcCall.today)
    /\ calcPrev' = calcRet
    /\ UNCHANGED <<now, aggVars, reqVars, trustVars, trendVars, colVars, proofVars, ledger>>

---------------------------------------------------------------------------
(* TrustScorer.updateTrustScore, updateConsistencyFactor and               *)
(* updateValidationRate.  Scores are integers; the evidence weight is a    *)
(* fraction.                                                               *)

\* Math.max(0, Math.min(1, evidenceWeight))
NormalizedWeight(evidenceWeight) == MathMax(Num(0), MathMin(Num(1), evidenceWeight))

updateTrustScoreRawEvidenceWeight(currentScore, newEvidence, evidenceWeight) ==
    LET normalizedWeight == NormalizedWeight(evidenceWeight)
        updatedScore ==
            MathRound(JAdd(JMul(currentScore, JAdd(Num(1), JMul(Num(-1), normalizedWeight))),
                           JMul(newEvidence, evidenceWeight)))
    IN  ClampToScoreRange(updatedScore)
updateTrustScore(currentScore, newEvidence, evidenceWeight) ==
    LET normalizedWeight == NormalizedWeight(evidenceWeight)
        updatedScore ==
            MathRound(JAdd(JMul(currentScore, JAdd(Num(1), JMul(Num(-1), normalizedWeight))),
                           JMul(newEvidence, normalizedWeight)))
    IN  ClampToScoreRange(updatedScore)

(* consistencyDelta = Math.round((0.5 - sigmoid) * 200) with                *)
(* sigmoid = 1 / (1 + Math.exp(-10 * (deviation - 0.5))) and                *)
(* deviation = diff / 1000 for an integer diff = |new - previous|.  It is  *)
(* 99 at diff 0 and falls by one at each diff listed in DeltaSteps (the    *)
(* expression evaluated in doubles at every integer diff; its distance to  *)
(* a rounding boundary is at least 4e-6); from diff 1099 on it is -100.     *)
DeltaSteps ==
    << 12, 64, 98, 123, 144, 161, 176, 189, 201, 211, 221, 230, 238, 246, 253,
       260, 266, 272, 278, 284, 289, 294, 299, 304, 308, 313, 317, 321, 325,
       329, 333, 337, 340, 344, 347, 351, 354, 357, 360, 363, 366, 370, 372,
       375, 378, 381, 384, 387, 389, 392, 395, 397, 400, 402, 405, 407, 410,
       412, 415, 417, 419, 422, 424, 426, 429, 431, 433, 435, 437, 440, 442,
       444, 446, 448, 450, 453, 455, 457, 459, 461, 463, 465, 467, 469, 471,
       473, 475, 477, 479, 481, 483, 485, 487, 489, 491, 493, 495, 497, 499,
       502, 504, 506, 508, 510, 512, 514, 516, 518, 520, 522, 524, 526, 528,
       530, 532, 534, 536, 538, 540, 542, 544, 546, 548, 551, 553, 555, 557,
       559, 561, 564, 566, 568, 570, 572, 575, 577, 579, 582, 584, 586, 589,
       591, 594, 596, 599, 601, 604, 606, 609, 612, 614, 617, 620, 623, 626,
       629, 631, 635, 638, 641, 644, 647, 650, 654, 657, 661, 664, 668, 672,
       676, 680, 684, 688, 693, 697, 702, 707, 712, 717, 723, 729, 735, 741,
       748, 755, 763, 771, 780, 790, 800, 812, 825, 840, 857, 878, 903, 937,
       989, 1099 >>
DeltaAtZero == 99
consistencyDeltaSignFlipped(diff) ==
    Cardinality({k \in 1..Len(DeltaSteps) : DeltaSteps[k] <= diff}) - DeltaAtZero
consistencyDelta(diff) ==
    DeltaAtZero - Cardinality({k \in 1..Len(DeltaSteps) : DeltaSteps[k] <= diff})

updateConsistencyFactor(currentFactor, newSubmission, previousSubmission) ==
    LET diff == Abs(newSubmission - previousSubmission)
    IN  ClampToScoreRange(JAdd(currentFactor, Num(consistencyDelta(diff))))

ValidationDeltaSymmetric(isValidated) == IF isValidated THEN 10 ELSE -10
ValidationDelta(isValidated) == IF isValidated THEN 10 ELSE -20

updateValidationRateUnclamped(currentRate, isValidated) ==
    JAdd(currentRate, Num(ValidationDelta(isValidated)))
updateValidationRate(currentRate, isValidated) ==
    ClampToScoreRange(JAdd(currentRate, Num(ValidationDelta(isValidated))))

EvidenceInputs == {Num(-500), Num(0), Num(2000)}
\* 0.1 is the default of evidenceWeight
EvidenceWeights == {Quot(-1, 2), Quot(1, 10), Quot(1, 2), Num(2)}
SubmissionPairs == {<<500, 500>>, <<900, 500>>, <<0, 500>>, <<1000, 0>>, <<3000, -1000>>}
InitialTrust == 500

\* POST /update
UpdateTrustScore(currentScore, newEvidence, evidenceWeight) ==
    /\ tsPrev' = currentScore
    /\ tsValue' = updateTrustScore(currentScore, newEvidence, evidenceWeight)
    /\ tsOp' = [kind |-> "updateTrustScore", newEvidence |-> newEvidence,
                evidenceWeight |-> evidenceWeight]
    /\ UNCHANGED <<now, aggVars, reqVars, calcVars, trendVars, colVars, proofVars, ledger>>

\* POST /consistency
UpdateConsistencyFactor(currentFactor, newSubmission, previousSubmission) ==
    /\ tsPrev' = currentFactor
    /\ tsValue' =
           updateConsistencyFactor(currentFactor, newSubmission, previousSubmission)
    /\ tsOp' = [kind |-> "updateConsistencyFactor", newSubmission |-> newSubmission,
                previousSubmission |-> previousSubmission]
    /\ UNCHANGED <<now, aggVars, reqVars, calcVars, trendVars, colVars, proofVars, ledger>>

\* POST /validation-rate; the record of the call notes whether the call before
\* it was a failed validation, and the rate that one was given
UpdateValidationRate(currentRate, isValidated) ==
    LET afterFailure == tsOp.kind = "updateValidationRate" /\ ~tsOp.isValidated
    IN  /\ tsPrev' = currentRate
        /\ tsValue' = updateValidationRate(currentRate, isValidated)
        /\ tsOp' = [kind |-> "updateValidationRate", isValidated |-> isValidated,
                    afterFailure |-> afterFailure,
                    rateBeforeFailure |-> IF afterFailure THEN tsPrev ELSE currentRate]
        /\ UNCHANGED <<now, aggVars, reqVars, calcVars, trendVars, colVars, proofVars, ledger>>

---------------------------------------------------------------------------
(* TrustScorer.predictTrustScoreTrend and linearRegression.  Timestamps    *)
(* and Date.now() are counted in days, so now + daysToPredict days is      *)
(* t + daysToPredict.                                                      *)

JSub(x, y) == JAdd(x, JMul(Num(-1), y))

RECURSIVE SumOf(_, _, _)
\* x.reduce((sum, val) => sum + val, 0) over the field f of the records
SumOf(history, f, i) ==
    IF i > Len(history) THEN 0 ELSE history[i][f] + SumOf(history, f, i + 1)

RECURSIVE RegressionLoop(_, _, _, _, _)
RegressionLoop(history, i, meanX, meanY, acc) ==
    IF i > Len(history) THEN acc
    ELSE LET dx == JSub(Num(history[i].timestamp), meanX)
             dy == JSub(Num(history[i].score), meanY)
         IN  RegressionLoop(history, i + 1, meanX, meanY,
                 [numerator |-> JAdd(acc.numerator, JMul(dx, dy)),
                  denominator |-> JAdd(acc.denominator, JMul(dx, dx))])

linearRegression(history) ==
    LET meanX == Quot(SumOf(history, "timestamp", 1), Len(history))
        meanY == Quot(SumOf(history, "score", 1), Len(history))
        sums == RegressionLoop(history, 1, meanX, meanY,
                               [numerator |-> Num(0), denominator |-> Num(0)])
        slope == IF sums.denominator # Num(0)
                 THEN JDiv(sums.numerator, sums.denominator) ELSE Num(0)
    IN  [slope |-> slope, intercept |-> JSub(meanY, JMul(slope, meanX))]

predictTrustScoreTrend(history, daysToPredict, t) ==
    IF Len(history) < 3
    THEN IF Len(history) > 0 THEN Num(history[Len(history)].score) ELSE Num(DefaultFactor)
    ELSE LET regression == linearRegression(history)
             futureTimestamp == Num(t + daysToPredict)
             predictedScore ==
                 JAdd(JMul(regression.slope, futureTimestamp), regression.intercept)
         IN  ClampToScoreRange(MathRound(predictedScore))

Null == [null |-> TRUE]
TrendStamps == {0, 10, 20}
TrendScores == {0, 500, 1000}
TrendRecords == {AccuracyRecord(s, v) : s \in TrendStamps, v \in TrendScores}
MaxHistory == 3
TrendHistories == SeqUpTo(TrendRecords, MaxHistory)
TrendDays == {20, 30}
DaysToPredict == {7, 30}

\* POST /predict-trend with an array as history
PredictTrend(history, daysToPredict, t) ==
    /\ trendCall.kind = "none"
    /\ trendCall' = [kind |-> "predict", history |-> history,
                     daysToPredict |-> daysToPredict, today |-> t]
    /\ trendRet' =
           [historyPoints |-> Len(history),
            daysToPredict |-> daysToPredict,
            latestScore |-> IF Len(history) > 0 THEN Num(history[Len(history)].score) ELSE Null,
            predictedScore |-> predictTrustScoreTrend(history, daysToPredict, t)]
    /\ UNCHANGED <<now, aggVars, reqVars, calcVars, trustVars, colVars, proofVars, ledger>>

---------------------------------------------------------------------------
(* CrossValidator.detectCollusion and calculateCorrelation.                *)
(*                                                                         *)
(* A correlation is numerator / Math.sqrt(denominatorA * denominatorB), in *)
(* general not a fraction: it is kept as its sign and its square, the      *)
(* fraction numerator^2 / (denominatorA * denominatorB).                   *)

ZeroCorrelation == [sign |-> 0, square |-> FracZero]
OneCorrelation == [sign |-> 1, square |-> FracOne]

\* a.map(val => val ? 1 : 0)
Bit(val) == IF val THEN 1 ELSE 0

RECURSIVE BitSum(_, _)
\* numA.reduce((sum, val) => sum + val, 0)
BitSum(a, i) == IF i > Len(a) THEN 0 ELSE Bit(a[i]) + BitSum(a, i + 1)

RECURSIVE CorrelationLoop(_, _, _, _, _, _)
CorrelationLoop(a, b, i, meanA, meanB, acc) ==
    IF i > Len(a) THEN acc
    ELSE LET diffA == JSub(Num(Bit(a[i])), meanA)
             \* numB[i] is undefined past the end of b, and undefined - meanB is NaN
             diffB == IF i <= Len(b) THEN JSub(Num(Bit(b[i])), meanB) ELSE NaN
         IN  CorrelationLoop(a, b, i + 1, meanA, meanB,
                 [numerator |-> JAdd(acc.numerator, JMul(diffA, diffB)),
                  denominatorA |-> JAdd(acc.denominatorA, JMul(diffA, diffA)),
                  denominatorB |-> JAdd(acc.denominatorB, JMul(diffB, diffB))])

\* the share of positions at which the two arrays agree
calculateCorrelationAsAgreement(a, b) ==
    IF Len(a) = 0 \/ Len(b) < Len(a) THEN ZeroCorrelation
    ELSE LET agree == Cardinality({i \in 1..Len(a) : a[i] = b[i]})
         IN  IF agree = 0 THEN ZeroCorrelation
             ELSE [sign |-> 1, square |-> Quot(agree * agree, Len(a) * Len(a))]
calculateCorrelation(a, b) ==
    LET meanA == JDiv(Num(BitSum(a, 1)), Num(Len(a)))
        meanB == JDiv(Num(BitSum(b, 1)), Num(Len(b)))
        sums == CorrelationLoop(a, b, 1, meanA, meanB,
                    [numerator |-> Num(0), denominatorA |-> Num(0), denominatorB |-> Num(0)])
        \* the argument of Math.sqrt; denominator > 0 exactly when it is a number above 0
        radicand == JMul(sums.denominatorA, sums.denominatorB)
    IN  IF IsFinite(radicand) /\ radicand.n > 0 /\ IsFinite(sums.numerator)
        THEN [sign |-> Sign(sums.numerator.n),
              square |-> JDiv(JMul(sums.numerator, sums.numerator), radicand)]
        ELSE ZeroCorrelation

\* correlation > 0.9
AboveThreshold(correlation) ==
    correlation.sign = 1 /\ 100 * correlation.square.n > 81 * correlation.square.d

\* Math.max of two correlations that are not negative
CorrelationMax(x, y) == IF FracLeq(x.square, y.square) THEN y ELSE x

RECURSIVE OpinionsOf(_, _, _)
\* the opinions of all results in array order: the two nested for loops of lines 230-237
OpinionsOf(vals, i, k) ==
    IF i > Len(vals) THEN <<>>
    ELSE IF k > Len(vals[i].validations) THEN OpinionsOf(vals, i + 1, 1)
    ELSE <<vals[i].validations[k]>> \o OpinionsOf(vals, i, k + 1)

RECURSIVE VotesOf(_, _, _)
\* patterns[validatorId]: the votes of one validator, in the order met
VotesOf(opinions, validatorId, i) ==
    IF i > Len(opinions) THEN <<>>
    ELSE (IF opinions[i].validator = validatorId THEN <<opinions[i].result>> ELSE <<>>)
         \o VotesOf(opinions, validatorId, i + 1)

Includes(s, x) == \E i \in 1..Len(s) : s[i] = x
PushAlways(s, x) == Append(s, x)
PushNew(s, x) == IF Includes(s, x) THEN s ELSE Append(s, x)
MinCommonValidations == 5

RECURSIVE PairLoop(_, _, _, _, _)
\* the loops of lines 244-271 over the pairs i < j of validatorIds
PairLoop(validatorIds, patterns, i, j, acc) ==
    IF i > Len(validatorIds) THEN acc
    ELSE IF j > Len(validatorIds) THEN PairLoop(validatorIds, patterns, i + 1, i + 2, acc)
    ELSE LET validatorA == validatorIds[i]
             validatorB == validatorIds[j]
             \* validationCounts[v] is the length of patterns[v]
             minValidations ==
                 IF Len(patterns[validatorA]) <= Len(patterns[validatorB])
                 THEN Len(patterns[validatorA]) ELSE Len(patterns[validatorB])
             correlation == calculateCorrelation(patterns[validatorA], patterns[validatorB])
         IN  PairLoop(validatorIds, patterns, i, j + 1,
                 IF minValidations < MinCommonValidations THEN acc
                 ELSE IF AboveThreshold(correlation)
                      THEN [suspects |-> PushNew(PushNew(acc.suspects, validatorA), validatorB),
                            maxCorrelation |-> CorrelationMax(acc.maxCorrelation, correlation)]
                      ELSE acc)

\* validations.length < 5 || validatorIds.length < 2
TooFewInputsIdsOnly(vals, validatorIds) == Len(validatorIds) < 2
TooFewInputs(vals, validatorIds) == Len(vals) < 5 \/ Len(validatorIds) < 2

detectCollusion(vals, validatorIds) ==
    IF TooFewInputs(vals, validatorIds)
    THEN [detected |-> FALSE, probability |-> ZeroCorrelation, suspects |-> <<>>]
    ELSE LET opinions == OpinionsOf(vals, 1, 1)
             patterns == [v \in {validatorIds[i] : i \in 1..Len(validatorIds)} |->
                              VotesOf(opinions, v, 1)]
             found == PairLoop(validatorIds, patterns, 1, 2,
                               [suspects |-> <<>>, maxCorrelation |-> ZeroCorrelation])
         IN  [detected |-> Len(found.suspects) > 0,
              probability |-> found.maxCorrelation,
              suspects |-> found.suspects]

(* The past results a caller holds.  Only the opinions of a result matter  *)
(* to detectCollusion.                                                     *)
MaxResults == 6
Vote(validator, result) == [validator |-> validator, result |-> result]
PastResult(opinions) == [validations |-> opinions]
ResultShapes ==
    { PastResult(<<Vote("v1", TRUE), Vote("v2", TRUE)>>),
      PastResult(<<Vote("v1", FALSE), Vote("v2", FALSE)>>),
      PastResult(<<Vote("v1", TRUE), Vote("v2", FALSE)>>),
      PastResult(<<Vote("v1", TRUE)>>),
      PastResult(<<Vote("v2", TRUE)>>) }
ValidatorIdLists == {<<"v1", "v2">>}

(* A panel of three validators; in the last shape v1 and v2 were each      *)
(* listed twice in the round and the result holds two opinions of each.    *)
PanelShapes ==
    { PastResult(<<Vote("v1", TRUE), Vote("v2", TRUE), Vote("v3", TRUE)>>),
      PastResult(<<Vote("v1", FALSE), Vote("v2", FALSE), Vote("v3", FALSE)>>),
      PastResult(<<Vote("v1", TRUE), Vote("v2", TRUE), Vote("v3", FALSE)>>),
      PastResult(<<Vote("v1", TRUE), Vote("v2", TRUE), Vote("v1", FALSE), Vote("v2", FALSE)>>) }
PanelIdLists == {<<"v1", "v2", "v3">>, <<"v1">>, <<>>}

\* a round ends and its ValidationResult joins the caller's history
RecordResult(result) ==
    /\ collusion.kind = "none"
    /\ Len(pastResults) < MaxResults
    /\ pastResults' = Append(pastResults, result)
    /\ UNCHANGED <<now, aggVars, reqVars, scorerVars, proofVars, ledger, collusion>>

\* POST /detect-collusion with the history and a list of validator ids
DetectCollusion(validatorIds) ==
    /\ collusion.kind = "none"
    /\ LET result == detectCollusion(pastResults, validatorIds)
       IN  collusion' =
               [kind |-> "detect-collusion", validatorIds |-> validatorIds,
                status |-> 200,
                body |-> [detected |-> result.detected, probability |-> result.probability,
                          suspects |-> result.suspects,
                          validationCount |-> Len(pastResults),
                          validatorCount |-> Len(validatorIds)]]
    /\ UNCHANGED <<now, aggVars, reqVars, scorerVars, proofVars, ledger, pastResults>>

---------------------------------------------------------------------------
(* generateConsensusProof and POST /generate-proof *)

\* the UTF-16 code units of a validator id
CharCodes(validator) ==
    IF validator = "v1" THEN <<118, 49>>
    ELSE IF validator = "v2" THEN <<118, 50>>
    ELSE <<118, 51>>

\* String(true), String(false)
BooleanChars(b) == IF b THEN <<116, 114, 117, 101>> ELSE <<102, 97, 108, 115, 101>>

\* String(n) of an integer n
RECURSIVE Digits(_)
Digits(n) == IF n < 10 THEN <<48 + n>> ELSE Append(Digits(n \div 10), 48 + (n % 10))
NumberChars(n) == IF n < 0 THEN <<45>> \o Digits(-n) ELSE Digits(n)

\* a.localeCompare(b) of two validator ids: negative, zero or positive
RECURSIVE CompareFrom(_, _, _)
CompareFrom(a, b, i) ==
    IF i > Len(a) /\ i > Len(b) THEN 0
    ELSE IF i > Len(a) THEN -1
    ELSE IF i > Len(b) THEN 1
    ELSE IF a[i] # b[i] THEN a[i] - b[i]
    ELSE CompareFrom(a, b, i + 1)
localeCompare(a, b) == CompareFrom(CharCodes(a), CharCodes(b), 1)

\* [...validations].sort((a, b) => a.validator.localeCompare(b.validator));
\* Array.prototype.sort is stable: opinions that compare equal keep the
\* order in which the list held them
InsertStable(sorted, v) ==
    LET k == Cardinality({i \in 1..Len(sorted) :
                             localeCompare(sorted[i].validator, v.validator) <= 0})
    IN  SubSeq(sorted, 1, k) \o <<v>> \o SubSeq(sorted, k + 1, Len(sorted))
RECURSIVE SortLoop(_, _, _)
SortLoop(vals, i, sorted) ==
    IF i > Len(vals) THEN sorted
    ELSE SortLoop(vals, i + 1, InsertStable(sorted, vals[i]))
sortedValidations(vals) == SortLoop(vals, 1, <<>>)

\* `${v.validator}:${v.result}:${v.trustScore}` joined by '|'
ValidationChars(v) ==
    CharCodes(v.validator) \o <<58>> \o BooleanChars(v.result) \o <<58>>
        \o NumberChars(v.trustScore)
RECURSIVE JoinFrom(_, _)
JoinFrom(sorted, i) ==
    IF i > Len(sorted) THEN <<>>
    ELSE IF i = Len(sorted) THEN ValidationChars(sorted[i])
    ELSE ValidationChars(sorted[i]) \o <<124>> \o JoinFrom(sorted, i + 1)
validationString(vals) == JoinFrom(sortedValidations(vals), 1)

\* hash = ((hash << 5) - hash) + char; hash = hash & hash: 31 * hash + char
\* reduced to 32 bits, kept as two 16-bit halves of the two's complement
HashStep(hash, char) ==
    LET low == 31 * hash.lo + char
        high == 31 * hash.hi + (low \div 65536)
    IN  [hi |-> high % 65536, lo |-> low % 65536]
\* for (let i = 0; i < validationString.length; i++): loop holds i and hash
RECURSIVE HashLoop(_, _)
HashLoop(chars, loop) ==
    IF loop.i > Len(chars) THEN loop.hash
    ELSE HashLoop(chars, [i |-> loop.i + 1, hash |-> HashStep(loop.hash, chars[loop.i])])

\* Math.abs of the signed 32-bit value
MathAbs(hash) ==
    IF hash.hi < 32768 THEN hash
    ELSE [hi |-> IF hash.lo = 0 THEN 65536 - hash.hi ELSE 65535 - hash.hi,
          lo |-> (65536 - hash.lo) % 65536]

\* toString(16).padStart(8, '0'): eight hexadecimal digits
HexDigits(half) ==
    <<(half \div 4096) % 16, (half \div 256) % 16, (half \div 16) % 16, half % 16>>
HexString(hash) ==
    IF hash.hi = 32768 /\ hash.lo = 0 THEN <<8, 0, 0, 0, 0, 0, 0, 0>>
    ELSE HexDigits(hash.hi) \o HexDigits(hash.lo)

hashValidations(vals) ==
    LET chars == validationString(vals)
    IN  HexString(MathAbs(HashLoop(chars, [i |-> 1, hash |-> [hi |-> 0, lo |-> 0]])))

\* the proofData object; Buffer.from(JSON.stringify(proofData)) writes these
\* five values in this order, so two buffers hold the same bytes exactly
\* when the five values are the same
generateConsensusProof(result) ==
    [dataId |-> result.dataId,
     consensusRatio |-> result.consensusRatio,
     validationCount |-> Len(result.validations),
     timestamp |-> result.timestamp,
     validationsHash |-> hashValidations(result.validations)]

\* !result || !result.dataId || !result.validations
GenerateProofRejects(body) ==
    ~("dataId" \in DOMAIN body) \/ ~("validations" \in DOMAIN body)

GenerateProofRoute(body, t) ==
    IF GenerateProofRejects(body)
    THEN [status |-> 400, body |-> [error |-> "Missing required parameters"]]
    ELSE [status |-> 200,
          body |-> [dataId |-> body.dataId,
                    isValid |-> body.isValid,
                    consensusRatio |-> body.consensusRatio,
                    proof |-> generateConsensusProof(body),
                    timestamp |-> t]]

\* the opinions of a ValidationResult; a validator id may occur in several
ProofOpinions ==
    [validator : {"v1", "v2"}, result : BOOLEAN, trustScore : {100, 900}, timestamp : {0}]

\* request bodies: results of aggregateValidations, and a body without dataId
ProofBodies ==
    {aggregateValidations(d, v, EmptyConfig, 0) :
        d \in DataIds, v \in SeqUpTo(ProofOpinions, MaxOpinions)}
    \cup {[validations |-> <<>>]}

\* a first request
GenerateProof(body) ==
    /\ proofCall = NoCall
    /\ proofCall' = [kind |-> IF GenerateProofRejects(body) THEN "rejected" ELSE "first",
                     result |-> body]
    /\ proofRet' = GenerateProofRoute(body, now)
    /\ proofPrev' = NoCall
    /\ UNCHANGED <<now, aggVars, reqVars, scorerVars, colVars, ledger>>

\* the same result sent again with two neighbouring opinions exchanged
GenerateProofPermuted(i) ==
    /\ proofCall.kind \in {"first", "permuted"}
    /\ i \in 1..(Len(proofCall.result.validations) - 1)
    /\ proofCall' = [kind |-> "permuted",
                     result |-> [proofCall.result EXCEPT
                                    !.validations = Swap(proofCall.result.validations, i)]]
    /\ proofRet' = GenerateProofRoute(proofCall'.result, now)
    /\ proofPrev' = proofRet
    /\ UNCHANGED <<now, aggVars, reqVars, scorerVars, colVars, ledger>>

---------------------------------------------------------------------------
(* A caller of the trust scorer that keeps, for each participant, the      *)
(* validation rate and the consistency factor, and passes the value it     *)
(* holds to POST /validation-rate or POST /consistency on every event.     *)

MaxEvents == 2

Participants == {"p1", "p2"}
\* the value both factors of every participant start from
StartValues == {5, 500, 995}

\* the caller starts its records
OpenLedger(start) ==
    /\ ledger = NoCall
    /\ ledger' = [kind |-> "ledger",
                  start |-> start,
                  validationRate |-> [p \in Participants |-> Num(start)],
                  consistencyFactor |-> [p \in Participants |-> Num(start)],
                  events |-> [p \in Participants |-> <<>>]]
    /\ UNCHANGED <<now, aggVars, reqVars, scorerVars, colVars, proofVars>>

\* a validation of participant p ended: POST /validation-rate with the rate
\* the caller holds for p
RecordValidation(p, isValidated) ==
    /\ ledger.kind = "ledger"
    /\ Len(ledger.events[p]) < MaxEvents
    /\ ledger' = [ledger EXCEPT
                     !.validationRate[p] = updateValidationRate(@, isValidated),
                     !.events[p] = Append(@, [kind |-> "validation",
                                              isValidated |-> isValidated])]
    /\ UNCHANGED <<now, aggVars, reqVars, scorerVars, colVars, proofVars>>

\* participant p submitted: POST /consistency with the factor the caller
\* holds for p
RecordSubmission(p, newSubmission, previousSubmission) ==
    /\ ledger.kind = "ledger"
    /\ Len(ledger.events[p]) < MaxEvents
    /\ ledger' = [ledger EXCEPT
                     !.consistencyFactor[p] =
                         updateConsistencyFactor(@, newSubmission, previousSubmission),
                     !.events[p] = Append(@, [kind |-> "submission",
                                              newSubmission |-> newSubmission,
                                              previousSubmission |-> previousSubmission])]
    /\ UNCHANGED <<now, aggVars, reqVars, scorerVars, colVars, proofVars>>

\* a submission equal to the one before it, and one as far from it as can be
LedgerSubmissions == {<<500, 500>>, <<1000, 0>>}

---------------------------------------------------------------------------
(* Initial state: the service is constructed, no request has been made *)

Init ==
    /\ now = 0
    /\ aggReq = [config |-> EmptyConfig]
    /\ aggRes = NoExchange
    /\ aggPrev = NoExchange
    /\ aggKind = "none"
    /\ pc = "idle"
    /\ request = [validators |-> <<>>]
    /\ reqConfig = EmptyConfig
    /\ promise = <<>>
    /\ validations = <<>>
    /\ successfulValidations = <<>>
    /\ timer = "unset"
    /\ race = [winner |-> "none", responded |-> {}]
    /\ reqResult = [outcome |-> "none"]
    /\ calcCall = NoCall
    /\ calcRet = Num(0)
    /\ calcPrev = Num(0)
    /\ tsValue = Num(InitialTrust)
    /\ tsPrev = Num(InitialTrust)
    /\ tsOp = NoCall
    /\ trendCall = NoCall
    /\ trendRet = [historyPoints |-> 0]
    /\ pastResults = <<>>
    /\ collusion = NoCall
    /\ proofCall = NoCall
    /\ proofRet = NoCall
    /\ proofPrev = NoCall
    /\ ledger = NoCall

NextAggregate ==
    \/ aggKind = "none" /\ \E body \in AggBodies, t \in now..MaxTime : PostAggregate(body, t)
    \/ \E t \in now..MaxTime : PostAggregateAgain(t)
    \/ \E i \in 1..MaxOpinions, t \in now..MaxTime : PostAggregatePermuted(i, t)

SpecAggregate == Init /\ [][NextAggregate]_vars

NextRequest ==
    \/ pc = "idle" /\ \E req \in Requests, config \in ReqConfigs, t \in now..MaxTime :
                        RequestValidations(req, config, t)
    \/ \E i \in 1..MaxValidators, t \in now..MaxTime : ValidatorResponds(i, t)
    \/ \E i \in 1..MaxValidators, t \in now..MaxTime : ValidatorFails(i, t)
    \/ \E t \in now..MaxTime : TimerFires(t)

SpecRequest == Init /\ [][NextRequest]_vars

\* the event loop runs a timer that is due: the timer of a round fires
FairSpecRequest == SpecRequest /\ WF_vars(\E t \in now..MaxTime : TimerFires(t))

NextRoute ==
    \/ pc = "idle" /\ \E body \in RequestBodies, t \in now..MaxTime : PostRequest(body, t)
    \/ \E i \in 1..MaxValidators, t \in now..MaxTime : ValidatorResponds(i, t)
    \/ \E i \in 1..MaxValidators, t \in now..MaxTime : ValidatorFails(i, t)
    \/ \E t \in now..MaxTime : TimerFires(t)

SpecRoute == Init /\ [][NextRoute]_vars

NextCalculate ==
    \/ calcCall.kind = "none" /\ \E evidence \in CalcParams, history \in HistoryInputs,
                                    weights \in WeightInputs, t \in CalcDays :
                                    Calculate(evidence, history, weights, t)
    \/ \E weights \in WeightInputs : CalculateReweighted(weights)

SpecCalculate == Init /\ [][NextCalculate]_vars

\* a caller threads one value through the three update functions
NextTrust ==
    \/ \E newEvidence \in EvidenceInputs \cup {tsValue}, evidenceWeight \in EvidenceWeights :
           UpdateTrustScore(tsValue, newEvidence, evidenceWeight)
    \/ \E pair \in SubmissionPairs : UpdateConsistencyFactor(tsValue, pair[1], pair[2])
    \/ \E isValidated \in BOOLEAN : UpdateValidationRate(tsValue, isValidated)

SpecTrust == Init /\ [][NextTrust]_vars

\* one call of POST /consistency, over the whole range of submission scores
FactorArgs == {0, 500, 1000}
SubmissionScores == (0..1000) \cup {-1000, 3000}
NextConsistency ==
    tsOp.kind = "none" /\ \E currentFactor \in FactorArgs, newSubmission \in SubmissionScores,
                            previousSubmission \in {0, 1000} :
        UpdateConsistencyFactor(Num(currentFactor), newSubmission, previousSubmission)

SpecConsistency == Init /\ [][NextConsistency]_vars

NextTrend ==
    trendCall.kind = "none" /\ \E history \in TrendHistories, daysToPredict \in DaysToPredict,
                                 t \in TrendDays :
        PredictTrend(history, daysToPredict, t)

SpecTrend == Init /\ [][NextTrend]_vars

NextCollusion ==
    \/ \E result \in ResultShapes : RecordResult(result)
    \/ \E validatorIds \in ValidatorIdLists : DetectCollusion(validatorIds)

SpecCollusion == Init /\ [][NextCollusion]_vars

NextCollusionPanel ==
    \/ \E result \in PanelShapes : RecordResult(result)
    \/ \E validatorIds \in PanelIdLists : DetectCollusion(validatorIds)

SpecCollusionPanel == Init /\ [][NextCollusionPanel]_vars

NextProof ==
    \/ \E body \in ProofBodies : GenerateProof(body)
    \/ \E i \in 1..MaxOpinions : GenerateProofPermuted(i)

SpecProof == Init /\ [][NextProof]_vars

NextLedger ==
    \/ \E start \in StartValues : OpenLedger(start)
    \/ \E p \in Participants, isValidated \in BOOLEAN : RecordValidation(p, isValidated)
    \/ \E p \in Participants, pair \in LedgerSubmissions : RecordSubmission(p, pair[1], pair[2])

SpecLedger == Init /\ [][NextLedger]_vars

---------------------------------------------------------------------------
(* Properties of aggregateValidations, read off the latest exchange *)

Answered == aggRes.status = 200
Opinions == aggReq.validations
Result == aggRes.body
Previous == aggPrev.body

\* the effective configuration, restated from the claim: the request's value
\* where it gives one, else 3 / 0.66
EffectiveMinOpinions ==
    IF "minValidations" \in DOMAIN aggReq.config THEN aggReq.config.minValidations ELSE 3
EffectiveThreshold ==
    IF "consensusThreshold" \in DOMAIN aggReq.config
    THEN aggReq.config.consensusThreshold
    ELSE [n |-> 66, d |-> 100]

RECURSIVE SumOfScores(_, _)
SumOfScores(ops, I) ==
    IF I = {} THEN 0
    ELSE LET i == CHOOSE x \in I : TRUE
         IN  ops[i].trustScore + SumOfScores(ops, I \ {i})

VotesFor(ops) == {i \in DOMAIN ops : ops[i].result}
VotesAgainst(ops) == {i \in DOMAIN ops : ~ops[i].result}
AllInRange(ops) == \A i \in DOMAIN ops : InRange(ops[i].trustScore)

\* C1: with fewer opinions than the effective minOpinions the result is the
\* INSUFFICIENT one: not accepted, both weighted sums 0 and ratio 0, whatever
\* the opinions say.
C1_InsufficientResult ==
    (Answered /\ Len(Opinions) < EffectiveMinOpinions) =>
        /\ Result.isValid = FALSE
        /\ Result.weightedPositive = 0
        /\ Result.weightedNegative = 0
        /\ Result.consensusRatio = FracZero

\* C1 witness: two opinions, both true with trust score 1000, under the default
\* minimum of 3
C1_Witness ==
    /\ Answered
    /\ aggReq.config = EmptyConfig
    /\ Len(Opinions) = 2
    /\ \A i \in DOMAIN Opinions : Opinions[i].result /\ Opinions[i].trustScore = 1000

\* C2: with at least minOpinions opinions, weightedFor is the sum of the trust
\* scores of the true opinions and weightedAgainst that of the false ones, so
\* the two add up to the sum over all opinions.
C2_WeightedSums ==
    (Answered /\ Len(Opinions) >= EffectiveMinOpinions) =>
        /\ Result.weightedPositive = SumOfScores(Opinions, VotesFor(Opinions))
        /\ Result.weightedNegative = SumOfScores(Opinions, VotesAgainst(Opinions))
        /\ Result.weightedPositive + Result.weightedNegative
              = SumOfScores(Opinions, DOMAIN Opinions)

\* C2 witness: a sufficient round with votes on both sides, each carrying weight
C2_Witness ==
    /\ Answered
    /\ Len(Opinions) >= EffectiveMinOpinions
    /\ \E i \in VotesFor(Opinions) : Opinions[i].trustScore > 0
    /\ \E i \in VotesAgainst(Opinions) : Opinions[i].trustScore > 0
    /\ Result.weightedPositive # Result.weightedNegative

ExampleOpinions ==
    << [validator |-> "v1", result |-> TRUE, trustScore |-> 900, timestamp |-> 0],
       [validator |-> "v1", result |-> FALSE, trustScore |-> 100, timestamp |-> 0],
       [validator |-> "v1", result |-> FALSE, trustScore |-> 100, timestamp |-> 0] >>

C3_ExampleReached ==
    Answered /\ Opinions = ExampleOpinions /\ aggReq.config = EmptyConfig

SameVerdict(a, b) ==
    /\ a.consensusRatio = b.consensusRatio
    /\ a.isValid = b.isValid
    /\ a.weightedPositive = b.weightedPositive
    /\ a.weightedNegative = b.weightedNegative

\* C4: reordering the opinions changes neither ratio, accepted, weightedFor nor
\* weightedAgainst: a call whose opinions are the previous call's with two
\* neighbours exchanged (every reordering is a chain of such exchanges) returns
\* the previous call's four values.
C4_PermutationInvariant ==
    aggKind = "permuted" => SameVerdict(Result, Previous)

\* C4 witness: an exchange that really reorders a sufficient round with weight
\* on both sides
C4_Witness ==
    /\ aggKind = "permuted"
    /\ Result.validations # Previous.validations
    /\ Len(Opinions) >= EffectiveMinOpinions
    /\ Result.weightedPositive > 0
    /\ Result.weightedNegative > 0

C6_RatioInUnitInterval ==
    Answered =>
        /\ FracGeq(Result.consensusRatio, FracZero)
        /\ FracLeq(Result.consensusRatio, FracOne)

---------------------------------------------------------------------------
(* Properties of requestValidations *)

Returned == reqResult.outcome = "returned"

\* the ConsensusResult the caller holds: its opinions list is the array the
\* result refers to, as that array is now
ResultView ==
    [reqResult.value EXCEPT
        !.validations = IF reqResult.ref = "validations"
                        THEN validations
                        ELSE successfulValidations]

RoundMinOpinions ==
    IF "minValidations" \in DOMAIN reqConfig THEN reqConfig.minValidations ELSE 3

Pending == {i \in DOMAIN promise : promise[i] = "pending"}
Failed == {i \in DOMAIN promise : promise[i] = "null"}

\* the opinions ops are one opinion for each call in I, under that call's
\* validator identity
OneOpinionPerCall(ops, I) ==
    /\ Len(ops) = Cardinality(I)
    /\ \A v \in Validators :
          Cardinality({k \in DOMAIN ops : ops[k].validator = v})
             = Cardinality({i \in I : request.validators[i] = v})

\* the sums of a result are the sums over its own opinions, or 0 and 0 when
\* the opinions are fewer than the round's minimum
SumsOver(r, ops) ==
    IF Len(ops) >= RoundMinOpinions
    THEN /\ r.weightedPositive = SumOfScores(ops, VotesFor(ops))
         /\ r.weightedNegative = SumOfScores(ops, VotesAgainst(ops))
    ELSE r.weightedPositive = 0 /\ r.weightedNegative = 0

\* C7: a round closed by the deadline aggregates exactly the opinions of the
\* validators that had responded by then; a validator that had not responded
\* adds nothing to weightedFor and nothing to weightedAgainst.
C7_DeadlineAggregatesResponders ==
    (Returned /\ race.winner = "timeout") =>
        /\ OneOpinionPerCall(ResultView.validations, race.responded)
        /\ SumsOver(ResultView, ResultView.validations)

\* C7 witness: the deadline closed a round in which some validators had
\* responded, enough to aggregate, and another had not
C7_Witness ==
    /\ Returned
    /\ race.winner = "timeout"
    /\ Cardinality(race.responded) >= RoundMinOpinions
    /\ Pending # {}
    /\ ResultView.weightedPositive > 0

\* C8: once the round has produced its result, no later step (a late validator
\* response among them) changes the result: its opinions list, weightedFor,
\* weightedAgainst, ratio and accepted stay as returned.
C8_LateResponseKeepsResult ==
    [][Returned => (ResultView' = ResultView)]_vars

\* C8 witness: a validator responded after the result was produced
C8_Witness ==
    /\ Returned
    /\ Len(validations) > Cardinality(race.responded)
    /\ Len(ResultView.validations) = Cardinality(race.responded)

\* C9: every round that is collecting eventually produces a ConsensusResult,
\* whichever validators respond, fail or never respond, and has produced it
\* once the deadline timer has fired.
C9_RoundProducesResult ==
    /\ (pc = "collecting") ~> Returned
    /\ [](timer = "fired" => Returned)

\* C9 witness: a result produced while no validator of the round has responded
C9_Witness ==
    /\ Returned
    /\ race.winner = "timeout"
    /\ Len(request.validators) >= 2
    /\ Pending = DOMAIN promise

\* C10: whichever validators' calls fail, the round ends with a ConsensusResult
\* (it does not throw), computed from the opinions of the validators that
\* responded before it closed; a failed validator contributes no opinion.
C10_FailedValidatorsDropped ==
    pc = "done" =>
        /\ Returned
        /\ Failed \cap race.responded = {}
        /\ OneOpinionPerCall(ResultView.validations, race.responded)
        /\ SumsOver(ResultView, ResultView.validations)

\* C10 witness: every validator of a round of two or more failed, and the
\* round returned
C10_Witness ==
    /\ Returned
    /\ Len(request.validators) >= 2
    /\ Failed = DOMAIN promise
    /\ race.winner = "all"


---------------------------------------------------------------------------
(* Properties of TrustScorer.calculateTrustScore, read off the latest call *)

Calculated == calcCall.kind # "none"
Reweighted == calcCall.kind = "reweighted"
InScoreRange(x) == IsFinite(x) /\ 0 <= x.n /\ x.n <= 1000 * x.d
GivenWeights == Field(calcCall.params, "weights", [k \in {} |-> 0])
ZeroTotal(weights) ==
    JAdd(JAdd(Field(weights, "accuracy", defaultWeights.accuracy),
              Field(weights, "consistency", defaultWeights.consistency)),
         Field(weights, "validation", defaultWeights.validation)).n = 0
ScaleFactors == {Num(5), Quot(1, 5)}

\* C11: whatever the weights (all on one factor, all zero, negative, negative
\* and summing to zero) and whatever the consistency factor and validation
\* rate, the number calculateTrustScore returns lies in [0, 1000].
C11_ScoreInRange == Calculated => InScoreRange(calcRet)

\* C12: the weights are normalised to sum to 1 and a triple of zeros is
\* replaced by the defaults: on the same evidence the score for weights
\* (0, 0, 0) is the score for (0.6, 0.2, 0.2), and the score for a non-zero
\* triple is the score for that triple scaled by a positive constant.
C12_WeightsNormalized ==
    Reweighted =>
        /\ AllZero(calcCall.before) /\ GivenWeights = defaultWeights => calcRet = calcPrev
        /\ /\ DOMAIN calcCall.before = WeightKeys
           /\ ~AllZero(calcCall.before)
           /\ \E k \in ScaleFactors : GivenWeights = ScaleWeights(calcCall.before, k)
           => calcRet = calcPrev

---------------------------------------------------------------------------
(* Properties of the update functions, read off the latest update *)

Updated(kind) == tsOp.kind = kind
Min(a, b) == IF a <= b THEN a ELSE b
Max(a, b) == IF a >= b THEN a ELSE b
\* the deviation of the latest updateConsistencyFactor call, in thousandths
DeviationMilli == Abs(tsOp.newSubmission - tsOp.previousSubmission)
\* what the latest update added to the value it was given
Change == tsValue.n - tsPrev.n

\* C13: starting from 500, the value threaded through any sequence of
\* updateTrustScore, updateConsistencyFactor and updateValidationRate calls
\* is in [0, 1000] after every call, whatever evidence, weight and
\* submission scores the calls are given (out-of-range ones included).
C13_TrustStateInRange == InScoreRange(tsValue) /\ tsValue.d = 1

C13_Witness ==
    /\ Updated("updateTrustScore")
    /\ tsOp.newEvidence = Num(2000)
    /\ tsOp.evidenceWeight = Num(2)
    /\ tsPrev = Num(401)
    /\ tsValue = Num(1000)

\* C14: updateTrustScore(s, s, w) returns s for every trust score s and
\* every weight w, weights outside [0, 1] included.
C14_SameEvidenceKeepsScore ==
    Updated("updateTrustScore") /\ tsOp.newEvidence = tsPrev => tsValue = tsPrev

C14_Witness ==
    /\ Updated("updateTrustScore")
    /\ tsOp.newEvidence = tsPrev
    /\ tsOp.evidenceWeight = Num(2)
    /\ tsPrev = Num(401)
    /\ tsValue = Num(401)

\* C15: updateValidationRate returns min(1000, current + 10) on a success
\* and max(0, current - 20) on a failure; away from the bounds a failure
\* followed by a success leaves the rate 10 lower; the rate stays in
\* [0, 1000]; a failure at 0 leaves 0 and a success at 1000 leaves 1000.
C15_ValidationRateSteps ==
    Updated("updateValidationRate") =>
        /\ tsOp.isValidated => tsValue.n = Min(1000, tsPrev.n + 10)
        /\ ~tsOp.isValidated => tsValue.n = Max(0, tsPrev.n - 20)
        /\ InScoreRange(tsValue)
        /\ tsOp.isValidated /\ tsOp.afterFailure /\ tsOp.rateBeforeFailure.n >= 20
               => tsValue.n = tsOp.rateBeforeFailure.n - 10
        /\ ~tsOp.isValidated /\ tsPrev.n = 0 => tsValue.n = 0
        /\ tsOp.isValidated /\ tsPrev.n = 1000 => tsValue.n = 1000

C15_Witness ==
    /\ Updated("updateValidationRate")
    /\ tsOp.isValidated
    /\ tsOp.afterFailure
    /\ tsOp.rateBeforeFailure = Num(500)
    /\ tsValue = Num(490)

\* C16: with d = |new - previous| / 1000, updateConsistencyFactor adds
\* round((0.5 - sigmoid(d)) * 200): a change that is non-negative for
\* d < 0.5, zero at d = 0.5, non-positive for d > 0.5, non-increasing in d
\* and within [-100, +100] for d in [0, 1]; the factor returned is clamped
\* to [0, 1000].
C16_ConsistencyDelta ==
    Updated("updateConsistencyFactor") =>
        /\ InScoreRange(tsValue)
        /\ tsValue.n = Max(0, Min(1000, tsPrev.n + consistencyDelta(DeviationMilli)))
        /\ tsPrev.n = 500 =>
               /\ DeviationMilli < 500 => Change >= 0
               /\ DeviationMilli = 500 => Change = 0
               /\ DeviationMilli > 500 => Change <= 0
               /\ DeviationMilli <= 1000 => Change >= -100 /\ Change <= 100
               /\ DeviationMilli >= 1 =>
                      consistencyDelta(Min(DeviationMilli, 1001) - 1) >= Change

C16_Witness ==
    /\ Updated("updateConsistencyFactor")
    /\ tsPrev = Num(500)
    /\ DeviationMilli = 400
    /\ tsValue = Num(546)

---------------------------------------------------------------------------
(* Properties of predictTrustScoreTrend, read off the latest call *)

Predicted == trendCall.kind = "predict"
History == trendCall.history
\* the records of the history that carry its greatest timestamp
MostRecent ==
    {i \in 1..Len(History) : \A j \in 1..Len(History) :
                                 History[j].timestamp <= History[i].timestamp}
\* every record has the same timestamp: the fit has no slope
Degenerate == \A i, j \in 1..Len(History) : History[i].timestamp = History[j].timestamp

\* C17: with fewer than 3 history points predictTrend returns 500 for an
\* empty history and otherwise the score of the most recent record (the one
\* with the greatest timestamp), unchanged, for every daysAhead and in
\* whatever order the records are supplied.
C17_ShortHistoryLatestScore ==
    Predicted /\ Len(History) < 3 =>
        /\ Len(History) = 0 => trendRet.predictedScore = Num(500)
        /\ Len(History) > 0 =>
               \E i \in MostRecent : trendRet.predictedScore = Num(History[i].score)

\* C18: with 3 or more history points predictTrend returns a value in
\* [0, 1000], and when every point has the same timestamp it falls back to
\* the last known score and tells the caller so with a flag.
C18_DegenerateFitFallsBack ==
    Predicted /\ Len(History) >= 3 =>
        /\ InScoreRange(trendRet.predictedScore)
        /\ Degenerate =>
               /\ trendRet.predictedScore = Num(History[Len(History)].score)
               /\ "degenerate" \in DOMAIN trendRet

---------------------------------------------------------------------------
(* Properties of detectCollusion, read off the latest call, for the pair   *)
(* of validators v1 and v2                                                 *)

CollusionAnswered == collusion.kind = "detect-collusion"
Report == collusion.body
\* the votes validator v cast in past result r
VotesIn(v, r) ==
    {pastResults[r].validations[k].result :
         k \in {q \in 1..Len(pastResults[r].validations) :
                    pastResults[r].validations[q].validator = v}}
\* the past results that hold an opinion of both validators
SharedClaims == {r \in 1..Len(pastResults) : VotesIn("v1", r) # {} /\ VotesIn("v2", r) # {}}
\* no past result holds an opinion of just one of the two
SameParticipation == \A r \in 1..Len(pastResults) : (VotesIn("v1", r) = {}) = (VotesIn("v2", r) = {})
IdenticalVotes == \A r \in SharedClaims : VotesIn("v1", r) = VotesIn("v2", r)
\* the shared votes are not all the same value
MixedVotes == \E r, s \in SharedClaims : VotesIn("v1", r) # VotesIn("v1", s)
LockstepPair == SameParticipation /\ Cardinality(SharedClaims) >= 5 /\ IdenticalVotes
BothSuspected ==
    /\ Report.detected
    /\ Report.probability = OneCorrelation
    /\ Includes(Report.suspects, "v1")
    /\ Includes(Report.suspects, "v2")
NothingFound ==
    /\ ~Report.detected
    /\ Report.probability = ZeroCorrelation
    /\ Report.suspects = <<>>

C20_FewSharedClaimsNotFlagged ==
    CollusionAnswered /\ Cardinality(SharedClaims) < 5 =>
        ~Includes(Report.suspects, "v1") /\ ~Includes(Report.suspects, "v2")

---------------------------------------------------------------------------
(* Properties of detectCollusion over a panel of validators *)

CandidateIds == collusion.validatorIds
\* patterns[v] as detectCollusion builds it
PatternOf(v) == VotesOf(OpinionsOf(pastResults, 1, 1), v, 1)
\* the pairs the loops of detectCollusion examine, and those it finds suspicious
ExaminedPairs ==
    IF Len(pastResults) < 5 THEN {}
    ELSE {pr \in (1..Len(CandidateIds)) \X (1..Len(CandidateIds)) :
              /\ pr[1] < pr[2]
              /\ Len(PatternOf(CandidateIds[pr[1]])) >= 5
              /\ Len(PatternOf(CandidateIds[pr[2]])) >= 5}
PairCorrelation(pr) ==
    calculateCorrelation(PatternOf(CandidateIds[pr[1]]), PatternOf(CandidateIds[pr[2]]))
FlaggedPairs == {pr \in ExaminedPairs : AboveThreshold(PairCorrelation(pr))}

\* C21: with fewer than 5 past results or fewer than 2 candidate validator
\* ids detectCollusion returns detected = false, probability = 0 and no
\* suspects, whatever the votes in the results.
C21_TooFewInputsNothingFound ==
    CollusionAnswered /\ (Len(pastResults) < 5 \/ Len(CandidateIds) < 2) => NothingFound

C21_Witness ==
    /\ CollusionAnswered
    /\ Len(pastResults) = 3
    /\ CandidateIds = <<"v1", "v2", "v3">>
    /\ Len(PatternOf("v1")) = 6
    /\ PatternOf("v1") = PatternOf("v2")
    /\ NothingFound

\* C22: a validator is a suspect exactly when it belongs to an examined
\* pair with correlation > 0.90; suspects holds no identity twice; detected
\* is true exactly when suspects is not empty; probability is the greatest
\* correlation among the flagged pairs, in (0.90, 1] when detected and 0
\* when not.
C22_OutputConsistent ==
    CollusionAnswered =>
        LET flagged == FlaggedPairs
            correlations == {PairCorrelation(pr) : pr \in flagged}
            members == UNION {{CandidateIds[pr[1]], CandidateIds[pr[2]]} : pr \in flagged}
        IN  /\ \A v \in {"v1", "v2", "v3"} : Includes(Report.suspects, v) <=> v \in members
            /\ \A i, j \in 1..Len(Report.suspects) :
                   Report.suspects[i] = Report.suspects[j] => i = j
            /\ Report.detected <=> Report.suspects # <<>>
            /\ Report.detected =>
                   /\ AboveThreshold(Report.probability)
                   /\ FracLeq(Report.probability.square, FracOne)
                   /\ Report.probability \in correlations
                   /\ \A c \in correlations : FracLeq(c.square, Report.probability.square)
            /\ ~Report.detected => Report.probability = ZeroCorrelation

C22_Witness ==
    /\ CollusionAnswered
    /\ Report.detected
    /\ Cardinality(FlaggedPairs) = 3
    /\ Report.suspects = <<"v1", "v2", "v3">>

---------------------------------------------------------------------------
(* Properties of generateConsensusProof *)

ProofPermuted == proofCall.kind = "permuted"
Commitment == proofRet.body.proof
CommitmentBefore == proofPrev.body.proof

\* C23: two ConsensusResults that are equal except for the order of their
\* opinions give identical commitment bytes, for every opinion list,
\* including lists in which one validator id occurs more than once with
\* different results or trust scores.
C23_ProofOrderIndependent == ProofPermuted => Commitment = CommitmentBefore

---------------------------------------------------------------------------
(* Properties of POST /request *)

RouteAnswered == RequestRouteResponse.status # 0
CarriesRequiredFields == \A k \in 1..4 : RequiredFields[k] \in DOMAIN request
ResultFields ==
    {"dataId", "isValid", "weightedPositive", "weightedNegative", "consensusRatio",
     "validations", "timestamp"}

\* C24: a request that carries every required field never ends in a failure
\* response: the answer of the route is a complete ConsensusResult, whatever
\* the validators do and however degenerate the aggregation is.
C24_NoHardError ==
    RouteAnswered /\ CarriesRequiredFields =>
        /\ RequestRouteResponse.status = 200
        /\ DOMAIN RequestRouteResponse.body = ResultFields

\* C25: a request is rejected as a client error, with no validator contacted
\* and nothing aggregated, exactly when a required field is missing; a
\* request that carries all of them, category 0 or an empty validator list
\* included, is not rejected.
C25_RejectedExactlyWhenMissing ==
    RouteAnswered =>
        /\ RequestRouteResponse.status = 400 <=> ~CarriesRequiredFields
        /\ RequestRouteResponse.status = 400 =>
               promise = <<>> /\ validations = <<>> /\ timer = "unset"

---------------------------------------------------------------------------
(* detectCollusion and the alignment and order of its inputs *)

VotedIn(v, result) == \E k \in 1..Len(result.validations) : result.validations[k].validator = v
\* the past results without those in which only one of v1 and v2 voted
SharedHistory ==
    SelectSeq(pastResults, LAMBDA result : VotedIn("v1", result) = VotedIn("v2", result))
Reversed(s) == [k \in 1..Len(s) |-> s[Len(s) + 1 - k]]
SuspectSet(report) == {report.suspects[k] : k \in 1..Len(report.suspects)}

\* C26: the votes of a pair are correlated claim by claim: with 5 or more
\* past results holding opinions of both validators, the outcome for the
\* pair is the same as for the history without the results in which only
\* one of the two voted.
C26_AlignedByClaim ==
    CollusionAnswered /\ Cardinality(SharedClaims) >= 5 =>
        LET aligned == detectCollusion(SharedHistory, CandidateIds)
        IN  /\ Report.detected = aligned.detected
            /\ Report.probability = aligned.probability
            /\ Report.suspects = aligned.suspects

\* C28: detectCollusion does not depend on the order of validatorIds: the
\* call with the ids in the opposite order yields the same detected, the
\* same probability and the same set of suspects, also when the two
\* validators cast different numbers of votes.
C28_OrderOfIdsIrrelevant ==
    CollusionAnswered =>
        LET swapped == detectCollusion(pastResults, Reversed(CandidateIds))
        IN  /\ Report.detected = swapped.detected
            /\ Report.probability = swapped.probability
            /\ SuspectSet(Report) = SuspectSet(swapped)

---------------------------------------------------------------------------
(* Order of the updates of validation rate and consistency factor *)

LedgerOpen == ledger.kind = "ledger"
Clamped(x) == Min(1000, Max(0, x))
\* the rate after the events of a list, applied in the order of the list
RECURSIVE RateAfter(_, _, _)
RateAfter(rate, events, i) ==
    IF i > Len(events) THEN rate
    ELSE IF events[i].kind # "validation" THEN RateAfter(rate, events, i + 1)
    ELSE RateAfter(Clamped(rate + (IF events[i].isValidated THEN 10 ELSE -20)), events, i + 1)
RECURSIVE FactorAfter(_, _, _)
FactorAfter(factor, events, i) ==
    IF i > Len(events) THEN factor
    ELSE IF events[i].kind # "submission" THEN FactorAfter(factor, events, i + 1)
    ELSE FactorAfter(Clamped(factor + consistencyDelta(Abs(events[i].newSubmission
                                                             - events[i].previousSubmission))),
                     events, i + 1)
\* p and q met the same two events of one kind, in opposite orders
OppositeOrders(p, q) ==
    /\ Len(ledger.events[p]) = 2
    /\ ledger.events[p][1] # ledger.events[p][2]
    /\ ledger.events[p][1].kind = ledger.events[p][2].kind
    /\ ledger.events[q] = Reversed(ledger.events[p])

\* C27: the updates of one participant do not commute, the updates of
\* different participants do.  What a participant holds is the result of
\* its own events in the order they came, whatever was done for the other
\* participant in between; two participants that met the same success and
\* failure (or the same two submissions) in opposite orders hold the same
\* values when no bound was hit on the way (start 500) and different values
\* when one was (start 5 or 995).
C27_OrderMattersPerParticipant ==
    LedgerOpen =>
        /\ \A p \in Participants :
               /\ ledger.validationRate[p] = Num(RateAfter(ledger.start, ledger.events[p], 1))
               /\ ledger.consistencyFactor[p]
                      = Num(FactorAfter(ledger.start, ledger.events[p], 1))
        /\ OppositeOrders("p1", "p2") =>
               (/\ ledger.validationRate["p1"] = ledger.validationRate["p2"]
                /\ ledger.consistencyFactor["p1"] = ledger.consistencyFactor["p2"])
                   <=> ledger.start = 500

\* success then failure from 995 gives 980, failure then success gives 985
C27_Witness ==
    /\ LedgerOpen
    /\ ledger.start = 995
    /\ ledger.events["p1"] = <<[kind |-> "validation", isValidated |-> TRUE],
                               [kind |-> "validation", isValidated |-> FALSE]>>
    /\ OppositeOrders("p1", "p2")
    /\ ledger.validationRate["p1"] = Num(980)
    /\ ledger.validationRate["p2"] = Num(985)

---------------------------------------------------------------------------
(* Properties of requestValidations: who is counted, and which config *)

RoundOpinions == reqResult.value.validations
ListedValidators == {request.validators[i] : i \in 1..Len(request.validators)}

\* C29: each validator identity contributes at most one opinion to a round,
\* every opinion names a validator listed in request.validators, and the
\* result holds at most as many opinions as there are distinct validators,
\* also when request.validators lists an identity more than once.
C29_OneOpinionPerValidator ==
    Returned =>
        /\ \A i, j \in 1..Len(RoundOpinions) :
               RoundOpinions[i].validator = RoundOpinions[j].validator => i = j
        /\ \A i \in 1..Len(RoundOpinions) : RoundOpinions[i].validator \in ListedValidators
        /\ Len(RoundOpinions) <= Cardinality(ListedValidators)

RoundThreshold ==
    IF "consensusThreshold" \in DOMAIN reqConfig
    THEN reqConfig.consensusThreshold
    ELSE [n |-> 33, d |-> 50]

\* C30: requestValidations decides with the config of the call only, with 3
\* and 0.66 for the fields the config lacks: the result is the aggregate of
\* the round's opinions under that config, and the minValidations and
\* consensusThreshold carried in the request change nothing in it.
C30_RequestFieldsIgnored ==
    Returned =>
        /\ reqResult.value =
               aggregateValidations(request.dataId, RoundOpinions, reqConfig,
                                    reqResult.value.timestamp)
        /\ SumsOver(reqResult.value, RoundOpinions)
        /\ reqResult.value.isValid =
               (/\ Len(RoundOpinions) >= RoundMinOpinions
                /\ FracGeq(reqResult.value.consensusRatio, RoundThreshold))

\* the request asks for 1 opinion and a threshold of 1.5, the call has no
\* config: two opinions are fewer than the default 3 and the round is
\* insufficient
C30_Witness ==
    /\ Returned
    /\ request.minValidations = 1
    /\ request.consensusThreshold = [n |-> 3, d |-> 2]
    /\ reqConfig = EmptyConfig
    /\ Len(RoundOpinions) = 2
    /\ ~reqResult.value.isValid
    /\ reqResult.value.weightedPositive = 0

=============================================================================
